---- MODULE Spec2Model ----
(***************************************************************************)
(* Model of src/main.py: the account / transaction core of the banking     *)
(* system.  One ContaCorrente is driven by the two transactions the menu   *)
(* can request through Cliente.realizar_transacao: Saque(valor) and        *)
(* Deposito(valor).  Amounts are integers.                                 *)
(*                                                                         *)
(* Four specifications share the operators that model the classes:         *)
(*   Spec         one account, any sequence of Saque / Deposito;           *)
(*   RoteiroSpec  one account, a fixed script of transactions;             *)
(*   MenuSpec     the menu of main(): clients, accounts, deposits and      *)
(*                withdrawals on the first account of a client;            *)
(*   ApiSpec      Cliente.realizar_transacao called by any client on any   *)
(*                account.                                                 *)
(*                                                                         *)
(* Every method of the source is an operator from the object's value (and  *)
(* the arguments) to a result record                                       *)
(*     [conta |-> the object after the call,                               *)
(*      ok    |-> the boolean the method returns,                          *)
(*      msg   |-> the message the method prints]                           *)
(* and every transaction the program runs is one action.                   *)
(***************************************************************************)
EXTENDS Integers, Sequences, FiniteSets

\* ---------------------------------------------------------------- constants
\* ContaCorrente.__init__ defaults: limite=500, limite_saques=3
Limite == 500
LimiteSaques == 3

\* ------------------------------------------------------------------- bounds
\* longest history explored
MaxHist == 5
\* rejected withdrawal attempts counted
MaxRejeitados == 2
\* MenuSpec: clients, accounts, and records per account explored
MaxClientes == 2
MaxContas == 3
MaxHistMenu == 2

\* amounts a caller may supply: negative, zero, small, at the ceiling, above it
Valores == {-1, 0, 1, Limite, Limite + 1}
\* datetime.now().strftime(...): the string stored in a record's "data"; no
\* code of the program reads that field, so one opaque value stands for it
Datas == {"dd-mm-aaaa HH:MM:SS"}

\* ----------------------------------------------------------------- messages
\* the lines the methods print, by the outcome they report
MsgValorInvalido == "ValorInvalido"
MsgSaldoInsuficiente == "SaldoInsuficiente"
MsgAcimaDoLimite == "ValorAcimaDoLimite"
MsgMaximoSaques == "NumeroMaximoDeSaquesAtingido"
MsgSaqueOk == "SaqueRealizado"
MsgDepositoOk == "DepositoRealizado"
MsgNenhuma == "nenhuma"

Mensagens ==
    {MsgValorInvalido, MsgSaldoInsuficiente, MsgAcimaDoLimite,
     MsgMaximoSaques, MsgSaqueOk, MsgDepositoOk, MsgNenhuma}
MensagensDeFalha ==
    {MsgValorInvalido, MsgSaldoInsuficiente, MsgAcimaDoLimite, MsgMaximoSaques}

\* ------------------------------------------------------------ transactions
\* Saque(valor) / Deposito(valor): the class name and the fixed amount
Saque(valor) == [tipo |-> "Saque", valor |-> valor]
Deposito(valor) == [tipo |-> "Deposito", valor |-> valor]

\* ---------------------------------------------------------------- Historico
\* Historico.__init__: an empty list
Historico_init == << >>

\* mutant: the record is inserted at the head of the list
Historico_adicionar_transacao_inicio(transacoes, transacao, data) ==
    <<[tipo |-> transacao.tipo, valor |-> transacao.valor, data |-> data]>>
        \o transacoes

\* Historico.adicionar_transacao: append {tipo, valor, data}
Historico_adicionar_transacao(transacoes, transacao, data) ==
    Append(transacoes,
           [tipo |-> transacao.tipo, valor |-> transacao.valor, data |-> data])

\* -------------------------------------------------------------------- Conta
\* ContaCorrente.__init__ (over Conta.__init__): saldo 0, empty history
ContaCorrente_init ==
    [saldo |-> 0,
     historico |-> Historico_init,
     limite |-> Limite,
     limite_saques |-> LimiteSaques]

\* mutant: no sufficient-funds check
Conta_sacar_semSaldo(c, valor) ==
    IF valor <= 0
    THEN [conta |-> c, ok |-> FALSE, msg |-> MsgValorInvalido]
    ELSE [conta |-> [c EXCEPT !.saldo = @ - valor],
          ok |-> TRUE, msg |-> MsgSaqueOk]

\* mutant: the balance is debited before the sufficient-funds check
Conta_sacar_debitaAntes(c, valor) ==
    IF valor <= 0
    THEN [conta |-> c, ok |-> FALSE, msg |-> MsgValorInvalido]
    ELSE IF valor > c.saldo
    THEN [conta |-> [c EXCEPT !.saldo = @ - valor],
          ok |-> FALSE, msg |-> MsgSaldoInsuficiente]
    ELSE [conta |-> [c EXCEPT !.saldo = @ - valor],
          ok |-> TRUE, msg |-> MsgSaqueOk]

\* Conta.sacar
Conta_sacar(c, valor) ==
    IF valor <= 0
    THEN [conta |-> c, ok |-> FALSE, msg |-> MsgValorInvalido]
    ELSE IF valor > c.saldo
    THEN [conta |-> c, ok |-> FALSE, msg |-> MsgSaldoInsuficiente]
    ELSE [conta |-> [c EXCEPT !.saldo = @ - valor],
          ok |-> TRUE, msg |-> MsgSaqueOk]

\* mutant: valor < 0 instead of valor <= 0
Conta_depositar_aceitaZero(c, valor) ==
    IF valor < 0
    THEN [conta |-> c, ok |-> FALSE, msg |-> MsgValorInvalido]
    ELSE [conta |-> [c EXCEPT !.saldo = @ + valor],
          ok |-> TRUE, msg |-> MsgDepositoOk]

\* mutant: saldo = valor instead of saldo += valor
Conta_depositar_atribui(c, valor) ==
    IF valor <= 0
    THEN [conta |-> c, ok |-> FALSE, msg |-> MsgValorInvalido]
    ELSE [conta |-> [c EXCEPT !.saldo = valor],
          ok |-> TRUE, msg |-> MsgDepositoOk]

\* Conta.depositar
Conta_depositar(c, valor) ==
    IF valor <= 0
    THEN [conta |-> c, ok |-> FALSE, msg |-> MsgValorInvalido]
    ELSE [conta |-> [c EXCEPT !.saldo = @ + valor],
          ok |-> TRUE, msg |-> MsgDepositoOk]

\* mutant: every record of the history is counted, whatever its kind
numero_saques_todos(transacoes) == Len(transacoes)

\* ContaCorrente.sacar, lines 101-103: the Saque records of the history
numero_saques(transacoes) ==
    Cardinality({i \in 1..Len(transacoes) : transacoes[i].tipo = "Saque"})

\* mutant: numero_saques > limite_saques instead of >=
ContaCorrente_sacar_maisUm(c, valor) ==
    IF valor > c.limite
    THEN [conta |-> c, ok |-> FALSE, msg |-> MsgAcimaDoLimite]
    ELSE IF numero_saques(c.historico) > c.limite_saques
    THEN [conta |-> c, ok |-> FALSE, msg |-> MsgMaximoSaques]
    ELSE Conta_sacar(c, valor)

\* mutant: the count is checked before the ceiling
ContaCorrente_sacar_contaPrimeiro(c, valor) ==
    IF numero_saques(c.historico) >= c.limite_saques
    THEN [conta |-> c, ok |-> FALSE, msg |-> MsgMaximoSaques]
    ELSE IF valor > c.limite
    THEN [conta |-> c, ok |-> FALSE, msg |-> MsgAcimaDoLimite]
    ELSE Conta_sacar(c, valor)

\* ContaCorrente.sacar
ContaCorrente_sacar(c, valor) ==
    IF valor > c.limite
    THEN [conta |-> c, ok |-> FALSE, msg |-> MsgAcimaDoLimite]
    ELSE IF numero_saques(c.historico) >= c.limite_saques
    THEN [conta |-> c, ok |-> FALSE, msg |-> MsgMaximoSaques]
    ELSE Conta_sacar(c, valor)

\* ------------------------------------------------------------------ registrar
\* mutant: the transaction is recorded whatever conta.sacar returned
Saque_registrar_sempre(c, transacao, data) ==
    LET r == ContaCorrente_sacar(c, transacao.valor)
    IN  [r EXCEPT !.conta.historico =
            Historico_adicionar_transacao(@, transacao, data)]

\* Saque.registrar: record the transaction only if conta.sacar succeeded
Saque_registrar(c, transacao, data) ==
    LET r == ContaCorrente_sacar(c, transacao.valor)
    IN  IF r.ok
        THEN [r EXCEPT !.conta.historico =
                 Historico_adicionar_transacao(@, transacao, data)]
        ELSE r

\* mutant: the deposit is applied but never recorded
Deposito_registrar_semHistorico(c, transacao, data) ==
    Conta_depositar(c, transacao.valor)

\* Deposito.registrar: record the transaction only if conta.depositar succeeded
Deposito_registrar(c, transacao, data) ==
    LET r == Conta_depositar(c, transacao.valor)
    IN  IF r.ok
        THEN [r EXCEPT !.conta.historico =
                 Historico_adicionar_transacao(@, transacao, data)]
        ELSE r

\* ------------------------------------------------------------------- Cliente
\* PessoaFisica.__init__ (over Cliente.__init__): no account yet.  contas
\* holds references to accounts: positions in the list of all accounts.
PessoaFisica_init(nome, data_nascimento, cpf, endereco) ==
    [nome |-> nome,
     data_nascimento |-> data_nascimento,
     cpf |-> cpf,
     endereco |-> endereco,
     contas |-> << >>]

\* Cliente.adicionar_conta: append the reference, whatever the list holds
Cliente_adicionar_conta(cliente, ref) ==
    [cliente EXCEPT !.contas = Append(@, ref)]

\* mutant: the transaction is refused on an account the client does not hold
Cliente_realizar_transacao_soDono(cliente, c, transacao, data) ==
    IF \A k \in 1..Len(cliente.contas) : cliente.contas[k] # c.numero
    THEN [conta |-> c, ok |-> FALSE, msg |-> MsgNenhuma]
    ELSE IF transacao.tipo = "Saque"
    THEN Saque_registrar(c, transacao, data)
    ELSE Deposito_registrar(c, transacao, data)

\* Cliente.realizar_transacao: transacao.registrar(conta), dispatched on the
\* class of the transaction; self is not consulted
Cliente_realizar_transacao(cliente, c, transacao, data) ==
    IF transacao.tipo = "Saque"
    THEN Saque_registrar(c, transacao, data)
    ELSE Deposito_registrar(c, transacao, data)

\* the client the account of Spec and RoteiroSpec belongs to
Titular ==
    Cliente_adicionar_conta(
        PessoaFisica_init("nome", "dd-mm-aaaa", "cpf", "endereco"), 1)

\* ---------------------------------------------------------------------- state
VARIABLES
    conta,       \* the ContaCorrente: saldo, historico, limite, limite_saques
    ult,         \* the last transaction run: its kind, amount, result, message
    rejeitados,  \* how many withdrawal attempts were rejected so far
    roteiro,     \* RoteiroSpec: the script being run and the position in it
    clientes,    \* MenuSpec, ApiSpec: main()'s list of clients
    contas,      \* MenuSpec, ApiSpec: main()'s list of accounts
    saida        \* MenuSpec, ApiSpec: the last operation and what it printed

vars == <<conta, ult, rejeitados, roteiro, clientes, contas, saida>>

\* the values of the variables a specification does not use
RoteiroNenhum == [passo |-> 0]
SaidaNenhuma == [op |-> "nenhuma"]
UltNenhuma == [op |-> "nenhuma", valor |-> 0, ok |-> FALSE, msg |-> MsgNenhuma]

TypeOK ==
    /\ conta.saldo \in Int
    /\ Len(conta.historico) <= MaxHist
    /\ \A i \in 1..Len(conta.historico) :
          /\ conta.historico[i].tipo \in {"Saque", "Deposito"}
          /\ conta.historico[i].valor \in Valores
          /\ conta.historico[i].data \in Datas
    /\ conta.limite = Limite
    /\ conta.limite_saques = LimiteSaques
    /\ ult.op \in {"Saque", "Deposito", "nenhuma"}
    /\ ult.valor \in Valores
    /\ ult.ok \in BOOLEAN
    /\ ult.msg \in Mensagens
    /\ rejeitados \in 0..MaxRejeitados

Init ==
    /\ conta = ContaCorrente_init
    /\ ult = UltNenhuma
    /\ rejeitados = 0
    /\ roteiro = RoteiroNenhum
    /\ clientes = << >>
    /\ contas = << >>
    /\ saida = SaidaNenhuma

\* sacar(clientes), line 244: cliente.realizar_transacao(conta, Saque(valor))
SacarOp(valor, data) ==
    LET r == Cliente_realizar_transacao(Titular, conta, Saque(valor), data)
    IN  /\ Len(r.conta.historico) <= MaxHist
        /\ conta' = r.conta
        /\ ult' = [op |-> "Saque", valor |-> valor, ok |-> r.ok, msg |-> r.msg]
        /\ r.ok \/ rejeitados < MaxRejeitados
        /\ rejeitados' = IF r.ok THEN rejeitados ELSE rejeitados + 1
        /\ UNCHANGED <<roteiro, clientes, contas, saida>>

\* depositar(clientes), line 230: cliente.realizar_transacao(conta, Deposito(valor))
DepositarOp(valor, data) ==
    LET r == Cliente_realizar_transacao(Titular, conta, Deposito(valor), data)
    IN  /\ Len(r.conta.historico) <= MaxHist
        /\ conta' = r.conta
        /\ ult' = [op |-> "Deposito", valor |-> valor, ok |-> r.ok, msg |-> r.msg]
        /\ UNCHANGED <<rejeitados, roteiro, clientes, contas, saida>>

Sacar == \E valor \in Valores : \E data \in Datas : SacarOp(valor, data)
Depositar == \E valor \in Valores : \E data \in Datas : DepositarOp(valor, data)

Next == Sacar \/ Depositar

Spec == Init /\ [][Next]_vars

\* ---------------------------------------------------------------- RoteiroSpec
\* A fixed script run on a new account through the menu's d and s choices:
\* deposit d, withdraw w, withdraw g, withdraw w three times, withdraw p.
RoteiroDepositos == {50, 100, 150, 200}
RoteiroSaques == {50, 100}
RoteiroGrandes == {Limite, 600}
RoteiroPequenos == {0, 1}

RoteiroTransacoes(rt) ==
    <<Deposito(rt.d), Saque(rt.w), Saque(rt.g),
      Saque(rt.w), Saque(rt.w), Saque(rt.w), Saque(rt.p)>>

RoteiroInit ==
    /\ conta = ContaCorrente_init
    /\ ult = UltNenhuma
    /\ rejeitados = 0
    /\ roteiro \in [passo : {0}, d : RoteiroDepositos, w : RoteiroSaques,
                    g : RoteiroGrandes, p : RoteiroPequenos]
    /\ clientes = << >>
    /\ contas = << >>
    /\ saida = SaidaNenhuma

\* depositar(clientes) / sacar(clientes) with the next amount of the script
RoteiroPasso(data) ==
    /\ roteiro.passo < Len(RoteiroTransacoes(roteiro))
    /\ LET transacao == RoteiroTransacoes(roteiro)[roteiro.passo + 1]
           r == Cliente_realizar_transacao(Titular, conta, transacao, data)
       IN  /\ conta' = r.conta
           /\ ult' = [op |-> transacao.tipo, valor |-> transacao.valor,
                      ok |-> r.ok, msg |-> r.msg]
           /\ rejeitados' = IF transacao.tipo = "Saque" /\ ~r.ok
                             THEN rejeitados + 1
                             ELSE rejeitados
    /\ roteiro' = [roteiro EXCEPT !.passo = @ + 1]
    /\ UNCHANGED <<clientes, contas, saida>>

RoteiroNext == \E data \in Datas : RoteiroPasso(data)

RoteiroSpec == RoteiroInit /\ [][RoteiroNext]_vars

\* ------------------------------------------------------------------- MenuSpec
\* The menu of main().  An object reference is the position of the object
\* in the list that holds every object of its class: clientes for clients,
\* contas for accounts (both lists are only appended to); 0 is None.
\* the CPFs typed at the prompts; the last one is never registered
CPFs == {"111", "222", "333"}
CPFsNovos == {"111", "222"}
ValoresMenu == {0, 1, Limite + 1}

MsgClienteNaoEncontrado == "ClienteNaoEncontrado"
MsgClienteSemConta == "ClienteNaoPossuiConta"
MsgClienteJaExiste == "JaExisteClienteComEsseCPF"
MsgClienteCriado == "ClienteCriado"
MsgContaCriada == "ContaCriada"

\* Conta.nova_conta on ContaCorrente: a new account bound to the client
ContaCorrente_nova_conta(cliente, numero) ==
    [saldo |-> 0,
     numero |-> numero,
     agencia |-> "0001",
     cliente |-> cliente,
     historico |-> Historico_init,
     limite |-> Limite,
     limite_saques |-> LimiteSaques]

\* mutant: every lookup fails
filtrar_cliente_nenhum(cpf, cs) == 0

\* filtrar_cliente: the first client with that CPF, or None
filtrar_cliente(cpf, cs) ==
    IF \E i \in 1..Len(cs) : cs[i].cpf = cpf
    THEN CHOOSE i \in 1..Len(cs) :
            /\ cs[i].cpf = cpf
            /\ \A j \in 1..(i - 1) : cs[j].cpf # cpf
    ELSE 0

\* mutant: the last account of the client
recuperar_conta_cliente_ultima(cliente) ==
    IF cliente.contas = << >> THEN 0 ELSE cliente.contas[Len(cliente.contas)]

\* recuperar_conta_cliente: the first account of the client, or None
recuperar_conta_cliente(cliente) ==
    IF cliente.contas = << >> THEN 0 ELSE cliente.contas[1]

\* mutant: numbering starts at 0
numero_conta_doZero(cs) == Len(cs)

\* main, line 325: numero_conta = len(contas) + 1
numero_conta(cs) == Len(cs) + 1

MenuInit ==
    /\ conta = ContaCorrente_init
    /\ ult = UltNenhuma
    /\ rejeitados = 0
    /\ roteiro = RoteiroNenhum
    /\ clientes = << >>
    /\ contas = << >>
    /\ saida = SaidaNenhuma

\* criar_cliente
CriarCliente(cpf) ==
    /\ IF filtrar_cliente(cpf, clientes) # 0
       THEN /\ saida' = [op |-> "nu", cpf |-> cpf, msg |-> MsgClienteJaExiste]
            /\ UNCHANGED clientes
       ELSE /\ Len(clientes) < MaxClientes
            /\ clientes' = Append(clientes,
                   PessoaFisica_init("nome", "dd-mm-aaaa", cpf, "endereco"))
            /\ saida' = [op |-> "nu", cpf |-> cpf, msg |-> MsgClienteCriado]
    /\ UNCHANGED <<conta, ult, rejeitados, roteiro, contas>>

\* main, lines 324-326, and criar_conta
CriarConta(cpf) ==
    LET numero == numero_conta(contas)
        cliente == filtrar_cliente(cpf, clientes)
    IN  /\ IF cliente = 0
           THEN /\ saida' = [op |-> "nc", cpf |-> cpf,
                             msg |-> MsgClienteNaoEncontrado]
                /\ UNCHANGED <<clientes, contas>>
           ELSE /\ Len(contas) < MaxContas
                /\ contas' = Append(contas,
                                    ContaCorrente_nova_conta(cliente, numero))
                /\ clientes' = [clientes EXCEPT ![cliente] =
                      Cliente_adicionar_conta(@, Len(contas) + 1)]
                /\ saida' = [op |-> "nc", cpf |-> cpf, msg |-> MsgContaCriada]
        /\ UNCHANGED <<conta, ult, rejeitados, roteiro>>

\* depositar(clientes) with a Deposito, sacar(clientes) with a Saque
MenuTransacao(op, cpf, transacao, data) ==
    LET cliente == filtrar_cliente(cpf, clientes)
    IN  /\ IF cliente = 0
           THEN /\ saida' = [op |-> op, cpf |-> cpf,
                             msg |-> MsgClienteNaoEncontrado]
                /\ UNCHANGED contas
           ELSE LET ref == recuperar_conta_cliente(clientes[cliente])
                IN  IF ref = 0
                    THEN /\ saida' = [op |-> op, cpf |-> cpf,
                                      msg |-> MsgClienteSemConta]
                         /\ UNCHANGED contas
                    ELSE LET r == Cliente_realizar_transacao(
                                     clientes[cliente], contas[ref],
                                     transacao, data)
                         IN  /\ Len(r.conta.historico) <= MaxHistMenu
                             /\ contas' = [contas EXCEPT ![ref] = r.conta]
                             /\ saida' = [op |-> op, cpf |-> cpf,
                                          msg |-> r.msg]
        /\ UNCHANGED <<conta, ult, rejeitados, roteiro, clientes>>

MenuDepositar(cpf, valor, data) == MenuTransacao("d", cpf, Deposito(valor), data)
MenuSacar(cpf, valor, data) == MenuTransacao("s", cpf, Saque(valor), data)

MenuNext ==
    \/ \E cpf \in CPFsNovos : CriarCliente(cpf)
    \/ \E cpf \in CPFs : CriarConta(cpf)
    \/ \E cpf \in CPFs : \E valor \in ValoresMenu : \E data \in Datas :
          MenuDepositar(cpf, valor, data)
    \/ \E cpf \in CPFs : \E valor \in ValoresMenu : \E data \in Datas :
          MenuSacar(cpf, valor, data)

MenuSpec == MenuInit /\ [][MenuNext]_vars

\* -------------------------------------------------------------------- ApiSpec
\* Two clients with one account each, as criar_cliente and criar_conta build
\* them; any client runs any transaction on any of the accounts.
ApiInit ==
    /\ conta = ContaCorrente_init
    /\ ult = UltNenhuma
    /\ rejeitados = 0
    /\ roteiro = RoteiroNenhum
    /\ clientes =
          <<Cliente_adicionar_conta(
                PessoaFisica_init("nome", "dd-mm-aaaa", "111", "endereco"), 1),
            Cliente_adicionar_conta(
                PessoaFisica_init("nome", "dd-mm-aaaa", "222", "endereco"), 2)>>
    /\ contas = <<ContaCorrente_nova_conta(1, 1), ContaCorrente_nova_conta(2, 2)>>
    /\ saida = SaidaNenhuma

\* cliente.realizar_transacao(conta, transacao)
ApiRealizarTransacao(cliente, ref, transacao, data) ==
    LET r == Cliente_realizar_transacao(clientes[cliente], contas[ref],
                                        transacao, data)
    IN  /\ Len(r.conta.historico) <= MaxHistMenu
        /\ contas' = [contas EXCEPT ![ref] = r.conta]
        /\ saida' = [op |-> "rt", cliente |-> cliente, conta |-> ref,
                     tipo |-> transacao.tipo, valor |-> transacao.valor,
                     ok |-> r.ok, msg |-> r.msg]
        /\ UNCHANGED <<conta, ult, rejeitados, roteiro, clientes>>

ApiNext ==
    \E cliente \in 1..Len(clientes) : \E ref \in 1..Len(contas) :
    \E valor \in ValoresMenu : \E data \in Datas :
        \/ ApiRealizarTransacao(cliente, ref, Saque(valor), data)
        \/ ApiRealizarTransacao(cliente, ref, Deposito(valor), data)

ApiSpec == ApiInit /\ [][ApiNext]_vars

\* ------------------------------------------------------- reading the state
\* the sum of the amounts of the records of one kind
RECURSIVE SomaTipo(_, _)
SomaTipo(transacoes, tipo) ==
    IF transacoes = << >>
    THEN 0
    ELSE (IF Head(transacoes).tipo = tipo THEN Head(transacoes).valor ELSE 0)
         + SomaTipo(Tail(transacoes), tipo)

\* the number of Saque records of a history
SaquesRegistrados(transacoes) ==
    Len(SelectSeq(transacoes, LAMBDA t : t.tipo = "Saque"))

\* the step appended exactly one record of this kind and amount
Acrescentou(tipo, valor) ==
    \E data \in Datas :
        conta'.historico =
            Append(conta.historico, [tipo |-> tipo, valor |-> valor, data |-> data])

\* ---------------------------------------------------------------------- C1
\* C1: whatever deposits and withdrawals were requested (any amount, accepted
\* or rejected), the balance of the account is never negative.
C1_SaldoNaoNegativo == conta.saldo >= 0

\* a withdrawal that emptied the account, after rejected attempts
C1_Witness ==
    /\ ult.op = "Saque" /\ ult.ok
    /\ conta.saldo = 0
    /\ rejeitados > 0

\* ---------------------------------------------------------------------- C2
\* C2: in a withdrawal attempt Saque(v).registrar(conta), one Saque record of
\* amount v is appended to the history if and only if the balance went down
\* by exactly v; otherwise neither the balance nor the history changes.
C2_SaqueAtomico ==
    [][ult'.op = "Saque" =>
         LET v == ult'.valor
             diminuiu == conta'.saldo < conta.saldo /\ conta.saldo - conta'.saldo = v
         IN  /\ Acrescentou("Saque", v) <=> diminuiu
             /\ ~Acrescentou("Saque", v) => conta' = conta]_vars

\* a recorded withdrawal that follows a rejected one
C2_Witness ==
    /\ ult.op = "Saque" /\ ult.ok
    /\ rejeitados > 0
    /\ Len(conta.historico) >= 2
    /\ conta.historico[Len(conta.historico)].tipo = "Saque"

\* ---------------------------------------------------------------------- C3
\* C3: the balance is the sum of the Deposito records of the history minus
\* the sum of its Saque records.
C3_HistoricoReproduzSaldo ==
    conta.saldo = SomaTipo(conta.historico, "Deposito")
                  - SomaTipo(conta.historico, "Saque")

\* a history with deposits and withdrawals, and a rejected attempt
C3_Witness ==
    /\ SomaTipo(conta.historico, "Deposito") > Limite
    /\ SomaTipo(conta.historico, "Saque") > 1
    /\ conta.saldo > 0
    /\ rejeitados > 0

\* ---------------------------------------------------------------------- C4
\* C4 as stated: once the history holds LimiteSaques withdrawals, every
\* further withdrawal attempt fails with the maximum-withdrawals message,
\* for every amount and balance.
C4_Original ==
    [][(ult'.op = "Saque" /\ SaquesRegistrados(conta.historico) = conta.limite_saques)
         => (~ult'.ok /\ ult'.msg = MsgMaximoSaques)]_vars

\* C4 amended: once the history holds LimiteSaques withdrawals, every further
\* withdrawal attempt fails and changes nothing; the message is the
\* maximum-withdrawals one for every amount up to the ceiling, and the
\* above-the-ceiling one for an amount above the ceiling.
C4_LimiteDeSaques ==
    [][(ult'.op = "Saque" /\ SaquesRegistrados(conta.historico) = conta.limite_saques)
         => /\ ~ult'.ok
            /\ conta' = conta
            /\ ult'.msg = IF ult'.valor > conta.limite
                          THEN MsgAcimaDoLimite
                          ELSE MsgMaximoSaques]_vars

\* a withdrawal the balance covers, refused because of the count
C4_Witness ==
    /\ ult.op = "Saque" /\ ~ult.ok /\ ult.msg = MsgMaximoSaques
    /\ SaquesRegistrados(conta.historico) = conta.limite_saques
    /\ ult.valor > 0
    /\ ult.valor <= conta.saldo

\* ---------------------------------------------------------------------- C5
\* C5: with fewer than LimiteSaques withdrawals recorded, a withdrawal of v
\* with 0 < v <= ceiling and v <= balance succeeds, however many withdrawal
\* attempts were rejected before.
C5_RejeitadosNaoContam ==
    [][(/\ ult'.op = "Saque"
        /\ SaquesRegistrados(conta.historico) < conta.limite_saques
        /\ 0 < ult'.valor
        /\ ult'.valor <= conta.limite
        /\ ult'.valor <= conta.saldo)
         => /\ ult'.ok
            /\ conta'.saldo = conta.saldo - ult'.valor
            /\ Acrescentou("Saque", ult'.valor)]_vars

\* the last allowed withdrawal succeeds after MaxRejeitados rejected attempts
C5_Witness ==
    /\ ult.op = "Saque" /\ ult.ok
    /\ rejeitados = MaxRejeitados
    /\ SaquesRegistrados(conta.historico) = conta.limite_saques

\* ---------------------------------------------------------------------- C6
\* C6: a withdrawal of more than the ceiling fails with the above-the-ceiling
\* message and changes neither balance nor history, whatever the balance and
\* the number of withdrawals already recorded.
C6_AcimaDoLimite ==
    [][(ult'.op = "Saque" /\ ult'.valor > conta.limite)
         => /\ ~ult'.ok
            /\ ult'.msg = MsgAcimaDoLimite
            /\ conta' = conta]_vars

\* refused above the ceiling although the balance covers it and the count
\* of withdrawals is already at its maximum
C6_Witness ==
    /\ ult.op = "Saque" /\ ult.valor > conta.limite
    /\ ult.msg = MsgAcimaDoLimite
    /\ conta.saldo >= ult.valor
    /\ SaquesRegistrados(conta.historico) = conta.limite_saques

\* ---------------------------------------------------------------------- C7
\* C7 as stated: a withdrawal or deposit of an amount <= 0 fails with the
\* invalid-amount message and no other, and changes nothing.
C7_Original ==
    [][(ult'.op \in {"Saque", "Deposito"} /\ ult'.valor <= 0)
         => /\ ~ult'.ok
            /\ ult'.msg = MsgValorInvalido
            /\ conta' = conta]_vars

\* C7 amended: a withdrawal or deposit of an amount <= 0 fails and changes
\* nothing; the message is the invalid-amount one, except for a withdrawal
\* on an account whose history already holds LimiteSaques withdrawals, which
\* gets the maximum-withdrawals message.
C7_ValorInvalido ==
    [][(ult'.op \in {"Saque", "Deposito"} /\ ult'.valor <= 0)
         => /\ ~ult'.ok
            /\ conta' = conta
            /\ ult'.msg =
                 IF /\ ult'.op = "Saque"
                    /\ SaquesRegistrados(conta.historico) >= conta.limite_saques
                 THEN MsgMaximoSaques
                 ELSE MsgValorInvalido]_vars

\* a withdrawal of an amount <= 0 refused as invalid on an account in use
C7_Witness ==
    /\ ult.op = "Saque" /\ ult.valor <= 0
    /\ ult.msg = MsgValorInvalido
    /\ conta.saldo > 0
    /\ SaquesRegistrados(conta.historico) > 0

\* ---------------------------------------------------------------------- C8
\* C8: Deposito(a).registrar with a > 0 succeeds, adds exactly a to the
\* balance and appends one Deposito record of amount a, also once the
\* withdrawal count is at its maximum; with a <= 0 it fails and changes
\* neither balance nor history.
C8_Deposito ==
    [][ult'.op = "Deposito" =>
         IF ult'.valor > 0
         THEN /\ ult'.ok
              /\ conta'.saldo = conta.saldo + ult'.valor
              /\ Acrescentou("Deposito", ult'.valor)
         ELSE /\ ~ult'.ok
              /\ conta' = conta]_vars

\* a deposit accepted after the withdrawal count reached its maximum
C8_Witness ==
    /\ ult.op = "Deposito" /\ ult.ok
    /\ SaquesRegistrados(conta.historico) = conta.limite_saques
    /\ conta.historico[Len(conta.historico)].tipo = "Deposito"

\* ---------------------------------------------------------------------- C9
\* C9: an operation that fails, by whichever check, leaves the balance and
\* the history exactly as they were.
C9_FalhaNaoAltera ==
    [][(ult'.op \in {"Saque", "Deposito"} /\ ~ult'.ok) => conta' = conta]_vars

\* a withdrawal refused for insufficient funds on an account with a history
C9_Witness ==
    /\ ult.op = "Saque" /\ ~ult.ok
    /\ ult.msg = MsgSaldoInsuficiente
    /\ conta.saldo > 0
    /\ Len(conta.historico) > 0

\* --------------------------------------------------------------------- C10
\* C10: in every step the history either stays as it is or gets exactly one
\* record appended at its end, and a record is appended only by a
\* transaction that was applied: the record carries its kind and amount.
C10_HistoricoSoCresce ==
    [][\/ conta'.historico = conta.historico
       \/ /\ ult'.ok
          /\ Acrescentou(ult'.op, ult'.valor)]_vars

\* a history of both kinds of record, in the order they were registered
C10_Witness ==
    /\ Len(conta.historico) >= 3
    /\ conta.historico[1].tipo = "Deposito"
    /\ conta.historico[2].tipo = "Saque"
    /\ conta.historico[3].tipo = "Deposito"
    /\ ult.op = "Saque" /\ ~ult.ok

\* --------------------------------------------------------------------- C11
\* the kinds and amounts of the records of a history, in order
TiposValores(transacoes) ==
    [i \in 1..Len(transacoes) |-> <<transacoes[i].tipo, transacoes[i].valor>>]

\* the script of the scenario: deposit 100, withdraw 50, withdraw 600,
\* withdraw 50 three times, withdraw 1
NoCenario ==
    /\ roteiro.d = 100 /\ roteiro.w = 50 /\ roteiro.g = 600 /\ roteiro.p = 1

\* the first three steps, on which the claim and the code agree
CenarioInicio ==
    /\ roteiro.passo = 1 =>
          /\ ult.ok /\ conta.saldo = 100
          /\ TiposValores(conta.historico) = <<<<"Deposito", 100>>>>
    /\ roteiro.passo = 2 =>
          /\ ult.ok /\ conta.saldo = 50
          /\ TiposValores(conta.historico) =
                <<<<"Deposito", 100>>, <<"Saque", 50>>>>
    /\ roteiro.passo = 3 =>
          /\ ~ult.ok /\ ult.msg = MsgAcimaDoLimite /\ conta.saldo = 50
          /\ TiposValores(conta.historico) =
                <<<<"Deposito", 100>>, <<"Saque", 50>>>>

\* C11 as stated: deposit(100) gives balance 100 and history [Deposito 100];
\* withdraw(50) gives balance 50 and history [Deposito 100, Saque 50];
\* withdraw(600) fails as above the ceiling and changes nothing; each of the
\* three further withdraw(50) succeeds; the final withdraw(1) fails with the
\* maximum-withdrawals message.
C11_Original ==
    NoCenario =>
        /\ CenarioInicio
        /\ roteiro.passo \in {4, 5, 6} => ult.ok
        /\ roteiro.passo = 7 => (~ult.ok /\ ult.msg = MsgMaximoSaques)

\* C11 amended: the first three steps as stated; of the three further
\* withdraw(50) only the first succeeds (balance 0, two withdrawals
\* recorded), the other two fail for insufficient funds and change nothing;
\* the final withdraw(1) fails for insufficient funds too.
C11_Cenario ==
    NoCenario =>
        /\ CenarioInicio
        /\ roteiro.passo = 4 => ult.ok
        /\ roteiro.passo \in {5, 6, 7} =>
              (~ult.ok /\ ult.msg = MsgSaldoInsuficiente)
        /\ roteiro.passo \in {4, 5, 6, 7} =>
              /\ conta.saldo = 0
              /\ TiposValores(conta.historico) =
                    <<<<"Deposito", 100>>, <<"Saque", 50>>, <<"Saque", 50>>>>

\* the scenario run to its end
C11_Witness ==
    /\ NoCenario
    /\ roteiro.passo = 7
    /\ ult.op = "Saque" /\ ult.valor = 1 /\ ~ult.ok
    /\ rejeitados = 4

\* --------------------------------------------------------------------- C12
\* the accounts of the list carry the numbers 1, 2, ..., n in that order
NumerosEmSequencia == \A i \in 1..Len(contas) : contas[i].numero = i

\* C12: after any sequence of menu operations the accounts of the list of
\* accounts carry the numbers 1, 2, ..., n in creation order, and an account
\* creation that fails because the client is not found adds no account (so
\* it consumes no number).
C12_NumerosDasContas ==
    /\ []NumerosEmSequencia
    /\ [][(saida'.op = "nc" /\ filtrar_cliente(saida'.cpf, clientes) = 0)
            => contas' = contas]_vars
    /\ [][contas' # contas =>
            \/ Len(contas') = Len(contas)
            \/ /\ Len(contas') = Len(contas) + 1
               /\ SubSeq(contas', 1, Len(contas)) = contas]_vars

\* accounts of two clients, and then a creation for an unknown CPF
C12_Witness ==
    /\ Len(contas) >= 2
    /\ contas[1].cliente # contas[2].cliente
    /\ saida.op = "nc"
    /\ saida.msg = MsgClienteNaoEncontrado

\* --------------------------------------------------------------------- C13
\* no two clients of the list have the same CPF
CpfsDistintos ==
    \A i, j \in 1..Len(clientes) :
        i # j => clientes[i].cpf # clientes[j].cpf

\* C13: no two clients of the list have the same CPF; the list only grows
\* (no client is removed or replaced); a creation with a CPF already in the
\* list leaves the list as it is.
C13_ClientesUnicos ==
    /\ []CpfsDistintos
    /\ [][/\ Len(clientes') >= Len(clientes)
          /\ \A i \in 1..Len(clientes) : clientes'[i].cpf = clientes[i].cpf
          /\ (/\ saida'.op = "nu"
              /\ \E i \in 1..Len(clientes) : clientes[i].cpf = saida'.cpf)
                => clientes' = clientes]_vars

\* two clients, and then a creation refused for a CPF already there
C13_Witness ==
    /\ Len(clientes) = 2
    /\ saida.op = "nu"
    /\ saida.msg = MsgClienteJaExiste

\* --------------------------------------------------------------------- C14
\* what transacao.registrar(conta) gives, by the class of the transaction
Registrar(c, transacao, data) ==
    CASE transacao.tipo = "Saque" -> Saque_registrar(c, transacao, data)
      [] transacao.tipo = "Deposito" -> Deposito_registrar(c, transacao, data)

\* C14: cliente.realizar_transacao(conta, tx) leaves the account exactly as
\* tx.registrar(conta) does, and touches nothing else, whether or not the
\* account is in the client's list.
C14_RealizarTransacao ==
    [][saida'.op = "rt" =>
         LET ref == saida'.conta
             tx == [tipo |-> saida'.tipo, valor |-> saida'.valor]
         IN  /\ \E data \in Datas :
                  /\ contas'[ref] = Registrar(contas[ref], tx, data).conta
                  /\ saida'.ok = Registrar(contas[ref], tx, data).ok
             /\ \A i \in 1..Len(contas) : i # ref => contas'[i] = contas[i]
             /\ clientes' = clientes]_vars

\* a withdrawal applied by a client on an account that is not in its list
C14_Witness ==
    /\ saida.op = "rt"
    /\ saida.tipo = "Saque" /\ saida.ok
    /\ \A k \in 1..Len(clientes[saida.cliente].contas) :
          clientes[saida.cliente].contas[k] # saida.conta
    /\ Len(contas[saida.conta].historico) = 2

\* --------------------------------------------------------------------- C15
\* the message a withdrawal of v gets, by the first gate that fails in the
\* order: ceiling, count of withdrawals, amount, funds
PortaDoSaque(v, saldo, n) ==
    IF v > Limite THEN MsgAcimaDoLimite
    ELSE IF n >= LimiteSaques THEN MsgMaximoSaques
    ELSE IF v <= 0 THEN MsgValorInvalido
    ELSE IF v > saldo THEN MsgSaldoInsuficiente
    ELSE MsgSaqueOk

\* withdraw(30) on a new account: insufficient funds, nothing changed
SaqueEmContaNova ==
    \A data \in Datas :
        LET r == Saque_registrar(ContaCorrente_init, Saque(30), data)
        IN  /\ ~r.ok
            /\ r.msg = MsgSaldoInsuficiente
            /\ r.conta = ContaCorrente_init

\* C15: the outcome of a withdrawal of v is that of the first failing gate
\* in the order (1) v > ceiling, (2) withdrawals recorded >= cap, (3) v <= 0,
\* (4) v > balance; with no failing gate the balance goes down by v.  A
\* failing gate changes nothing.  withdraw(30) on a new account fails for
\* insufficient funds with balance 0 and an empty history.
C15_OrdemDasPortas ==
    /\ [][ult'.op = "Saque" =>
            LET msg == PortaDoSaque(ult'.valor, conta.saldo,
                                    SaquesRegistrados(conta.historico))
            IN  /\ ult'.msg = msg
                /\ ult'.ok = (msg = MsgSaqueOk)
                /\ IF msg = MsgSaqueOk
                   THEN conta'.saldo = conta.saldo - ult'.valor
                   ELSE conta' = conta]_vars
    /\ []SaqueEmContaNova

\* insufficient funds reported on an account with two withdrawals recorded
C15_Witness ==
    /\ ult.op = "Saque" /\ ult.msg = MsgSaldoInsuficiente
    /\ SaquesRegistrados(conta.historico) = 2
    /\ ult.valor = Limite

\* --------------------------------------------------------------------- C16
\* C16: once the history holds LimiteSaques withdrawals, no later step
\* lowers the balance or changes the number of withdrawals recorded.
C16_LimitePermanente ==
    [][SaquesRegistrados(conta.historico) = conta.limite_saques =>
         /\ conta'.saldo >= conta.saldo
         /\ SaquesRegistrados(conta'.historico) = conta.limite_saques]_vars

\* a withdrawal refused after a deposit that followed the last withdrawal
C16_Witness ==
    /\ SaquesRegistrados(conta.historico) = conta.limite_saques
    /\ conta.historico[Len(conta.historico)].tipo = "Deposito"
    /\ ult.op = "Saque" /\ ~ult.ok
    /\ ult.valor > 0 /\ ult.valor <= conta.saldo

\* --------------------------------------------------------------------- C17
\* C17: the history never holds more than LimiteSaques withdrawals.
C17_NoMaximoLimiteSaques ==
    SaquesRegistrados(conta.historico) <= conta.limite_saques

\* the maximum is reached and further attempts were refused
C17_Witness ==
    /\ SaquesRegistrados(conta.historico) = conta.limite_saques
    /\ rejeitados = MaxRejeitados
    /\ ult.msg = MsgMaximoSaques

\* --------------------------------------------------------------------- C18
\* C18: every record of the history has an amount > 0, and every Saque
\* record an amount not above the ceiling.
C18_ValoresRegistrados ==
    \A i \in 1..Len(conta.historico) :
        /\ conta.historico[i].valor > 0
        /\ conta.historico[i].tipo = "Saque" =>
              conta.historico[i].valor <= conta.limite

\* a deposit above the ceiling and a withdrawal at the ceiling recorded,
\* after attempts with other amounts were refused
C18_Witness ==
    /\ \E i \in 1..Len(conta.historico) :
          /\ conta.historico[i].tipo = "Deposito"
          /\ conta.historico[i].valor > conta.limite
    /\ \E i \in 1..Len(conta.historico) :
          /\ conta.historico[i].tipo = "Saque"
          /\ conta.historico[i].valor = conta.limite
    /\ rejeitados > 0

\* --------------------------------------------------------------------- C19
\* the account is the first of the list of the client it is bound to
PrimeiraDoCliente(i) == clientes[contas[i].cliente].contas[1] = i

\* C19: through the menu only the first account of a client is changed: an
\* account that is not the first of its client has balance 0 and an empty
\* history, and a deposit or withdrawal for a CPF changes no account other
\* than the first account of the client with that CPF.
C19_SoPrimeiraConta ==
    /\ [](\A i \in 1..Len(contas) :
            ~PrimeiraDoCliente(i) =>
                (contas[i].saldo = 0 /\ contas[i].historico = << >>))
    /\ [][saida'.op \in {"d", "s"} =>
            /\ Len(contas') = Len(contas)
            /\ \A i \in 1..Len(contas) :
                  contas'[i] # contas[i] =>
                     \E c \in 1..Len(clientes) :
                        /\ clientes[c].cpf = saida'.cpf
                        /\ clientes[c].contas # << >>
                        /\ clientes[c].contas[1] = i]_vars

\* a client with two accounts and another client with one: both first
\* accounts were used, the second account of the first client was not
C19_Witness ==
    /\ Len(contas) = 3
    /\ \E i, j, k \in 1..Len(contas) :
          /\ contas[i].cliente = contas[j].cliente
          /\ contas[k].cliente # contas[i].cliente
          /\ PrimeiraDoCliente(i) /\ ~PrimeiraDoCliente(j)
          /\ contas[i].saldo > 0
          /\ contas[k].saldo > 0
          /\ contas[j].saldo = 0
    /\ saida.op = "d" /\ saida.msg = MsgDepositoOk

====
